---- MODULE Spec2Model ----
(***************************************************************************)
(* Model of the useScreenShare hook (src/hooks/useScreenShare.ts): the     *)
(* permission / stream lifecycle of a screen-capture session.              *)
(*                                                                         *)
(* One action per handler of the hook: requestScreenShare (the synchronous *)
(* part up to the await), the two continuations of the awaited             *)
(* getDisplayMedia promise (resolve, reject), stopScreenShare, the         *)
(* onended listener of the video track, and the unmount of the component.  *)
(* Every action includes the React commit that follows it: the effect      *)
(* declared with the dependency list [stream, cleanupStream] runs its      *)
(* cleanup whenever the committed value of stream changes, and on unmount. *)
(***************************************************************************)
EXTENDS Integers, Sequences, FiniteSets, TLC

\* ------------------------------------------------------------------ bounds
MaxRequests == 3      \* getDisplayMedia calls in one run
MaxReleases == 3      \* cleanupStream invocations on one stream
MaxEndSignals == 2    \* ended events the platform delivers for one track

\* ------------------------------------------------------- values and inputs
\* An optional JavaScript value: <<>> is null / undefined, <<v>> is v.
Null == <<>>
Some(v) == <<v>>

IDLE == "idle"
REQUESTING == "requesting"
GRANTED == "granted"
CANCELLED == "cancelled"
DENIED == "denied"
ERROR == "error"

PermissionState == {IDLE, REQUESTING, GRANTED, CANCELLED, DENIED, ERROR}

\* Error messages are sequences of characters, so that String.includes is
\* computed and not assumed.
MsgCancelled == <<"c","a","n","c","e","l","l","e","d">>
MsgDismissed == <<"d","i","s","m","i","s","s","e","d">>
MsgDenied == <<"d","e","n","i","e","d">>
MsgNoVideoTrack == <<"N","o"," ","v","i","d","e","o"," ","t","r","a","c","k"," ","f","o","u","n","d">>
SubCancelled == <<"c","a","n","c","e","l","l","e","d">>
SubDismiss == <<"d","i","s","m","i","s","s">>

\* The rejections getDisplayMedia produces in the model.
\* NotAllowedError comes with every message; the other names come with a
\* message that contains 'cancelled', and NotFoundError also with one that
\* does not: the message must not decide their class.
OtherErrorNames == {"NotFoundError", "NotSupportedError", "AbortError", "TypeError"}
ErrorMessages == {MsgCancelled, MsgDismissed, MsgDenied, <<>>}
PlatformErrors ==
  [name : {"NotAllowedError"}, message : ErrorMessages]
    \cup [name : OtherErrorNames, message : {MsgCancelled}]
    \cup [name : {"NotFoundError"}, message : {MsgDenied}]

\* The settings a granted video track reports; every field is optional.
Surfaces == {Null, Some("monitor"), Some("window"), Some("browser"), Some("application")}
Widths == {Null, Some(1920)}
Heights == {Null, Some(1080)}
FrameRates == {Null, Some(30)}
AllSettings == [displaySurface : Surfaces, width : Widths, height : Heights, frameRate : FrameRates]
\* Every surface comes with all of width, height and frameRate reported and
\* with none of them; a monitor comes with every combination.
TrackSettings ==
  {s \in AllSettings :
     \/ s.displaySurface = Some("monitor")
     \/ (s.width = Null /\ s.height = Null /\ s.frameRate = Null)
     \/ (s.width # Null /\ s.height # Null /\ s.frameRate # Null)}

\* What mediaStream.getVideoTracks() returns for a granted stream: no track,
\* or one track with its settings.
VideoTracks == {<<>>} \cup {<<settings>> : settings \in TrackSettings}

\* ----------------------------------------------------------------- state
VARIABLES
  permissionState,  \* useState<PermissionState>
  stream,           \* useState<MediaStream | null>: 0 is null, else an index of streams
  metadata,         \* useState<StreamMetadata | null>
  error,            \* useState<Error | null>
  isActive,         \* useState(false)
  isMountedRef,     \* useRef(true)
  mounted,          \* the component owning the hook has not been unmounted
  pending,          \* getDisplayMedia promises not yet settled
  calls,            \* getDisplayMedia calls issued so far
  streams,          \* every stream getDisplayMedia has granted, in order
  lastOp            \* the handler that ran last

hookState == <<permissionState, stream, metadata, error, isActive>>
vars == <<permissionState, stream, metadata, error, isActive, isMountedRef,
          mounted, pending, calls, streams, lastOp>>

\* ------------------------------------------------------- pure functions
\* String.prototype.includes
Includes(s, sub) ==
  \E i \in 0..(Len(s) - Len(sub)) : SubSeq(s, i + 1, i + Len(sub)) = sub

\* getDisplayType without the case for a browser tab
getDisplayType_NoBrowser(settings) ==
  IF settings.displaySurface = Some("monitor") THEN "monitor"
  ELSE IF settings.displaySurface = Some("window") THEN "window"
  ELSE "unknown"

\* getDisplayType: the reported surface, or 'unknown'
getDisplayType(settings) ==
  IF settings.displaySurface = Some("monitor") THEN "monitor"
  ELSE IF settings.displaySurface = Some("window") THEN "window"
  ELSE IF settings.displaySurface = Some("browser") THEN "browser"
  ELSE "unknown"

\* v || 0 on an optional number
OrZero(v) == IF v = Null THEN 0 ELSE v[1]

\* extractMetadata with frameRate read from settings.height
extractMetadata_FrameRateFromHeight(settings) ==
  [displayType |-> getDisplayType(settings),
   width |-> OrZero(settings.width),
   height |-> OrZero(settings.height),
   frameRate |-> OrZero(settings.height)]

\* extractMetadata, for a stream that has a video track
extractMetadata(settings) ==
  [displayType |-> getDisplayType(settings),
   width |-> OrZero(settings.width),
   height |-> OrZero(settings.height),
   frameRate |-> OrZero(settings.frameRate)]

\* The error extractMetadata throws for a stream without a video track
NoVideoTrackError == [name |-> "Error", message |-> MsgNoVideoTrack]

\* ClassifyError with AbortError left to the final else branch
ClassifyError_AbortAsError(err) ==
  IF err.name = "NotAllowedError"
    THEN IF Includes(err.message, SubCancelled) \/ Includes(err.message, SubDismiss)
           THEN CANCELLED
           ELSE DENIED
  ELSE IF err.name = "NotFoundError" THEN CANCELLED
  ELSE IF err.name = "NotSupportedError" THEN ERROR
  ELSE ERROR

\* ClassifyError without the test for 'dismiss'
ClassifyError_NoDismiss(err) ==
  IF err.name = "NotAllowedError"
    THEN IF Includes(err.message, SubCancelled)
           THEN CANCELLED
           ELSE DENIED
  ELSE IF err.name = "NotFoundError" THEN CANCELLED
  ELSE IF err.name = "NotSupportedError" THEN ERROR
  ELSE IF err.name = "AbortError" THEN CANCELLED
  ELSE ERROR

\* The classification of the catch block of requestScreenShare
ClassifyError(err) ==
  IF err.name = "NotAllowedError"
    THEN IF Includes(err.message, SubCancelled) \/ Includes(err.message, SubDismiss)
           THEN CANCELLED
           ELSE DENIED
  ELSE IF err.name = "NotFoundError" THEN CANCELLED
  ELSE IF err.name = "NotSupportedError" THEN ERROR
  ELSE IF err.name = "AbortError" THEN CANCELLED
  ELSE ERROR

\* cleanupStream(s): stops every track of s; s = 0 (null) is a no-op
cleanupStream(strs, s) ==
  IF s = 0 THEN strs
  ELSE [strs EXCEPT ![s].released = @ + 1]

\* A freshly granted stream
NewStream(hasVideo) ==
  [hasVideo |-> hasVideo,   \* getVideoTracks()[0] exists
   onended |-> FALSE,       \* the onended listener is installed
   stored |-> FALSE,        \* setStream was called with it
   released |-> 0,          \* cleanupStream invocations on it
   endSignals |-> 0]        \* ended events delivered for its track

\* ------------------------------------------------------------------ Init
\* Init with useState(true) for isActive
Init_ActiveAtStart ==
  /\ permissionState = IDLE
  /\ stream = 0
  /\ metadata = Null
  /\ error = Null
  /\ isActive = TRUE
  /\ isMountedRef = TRUE
  /\ mounted = TRUE
  /\ pending = 0
  /\ calls = 0
  /\ streams = <<>>
  /\ lastOp = "init"

\* The state after the first render of the component that uses the hook
Init ==
  /\ permissionState = IDLE
  /\ stream = 0
  /\ metadata = Null
  /\ error = Null
  /\ isActive = FALSE
  /\ isMountedRef = TRUE
  /\ mounted = TRUE
  /\ pending = 0
  /\ calls = 0
  /\ streams = <<>>
  /\ lastOp = "init"

\* --------------------------------------------------------------- actions
\* requestScreenShare without setError(null)
RequestScreenShare_KeepError ==
  /\ calls < MaxRequests
  /\ IF mounted
       THEN /\ permissionState' = REQUESTING
            /\ UNCHANGED error
       ELSE UNCHANGED <<error, permissionState>>
  /\ pending' = pending + 1
  /\ calls' = calls + 1
  /\ lastOp' = "request"
  /\ UNCHANGED <<stream, metadata, isActive, isMountedRef, mounted, streams>>

\* requestScreenShare up to the await: reset the error, enter REQUESTING,
\* call getDisplayMedia.  State setters of an unmounted component do nothing.
RequestScreenShare ==
  /\ calls < MaxRequests
  /\ IF mounted
       THEN /\ error' = Null
            /\ permissionState' = REQUESTING
       ELSE UNCHANGED <<error, permissionState>>
  /\ pending' = pending + 1
  /\ calls' = calls + 1
  /\ lastOp' = "request"
  /\ UNCHANGED <<stream, metadata, isActive, isMountedRef, mounted, streams>>

\* CatchBlock with setError(err) skipped for a rejection classified as
\* cancellation.
CatchBlock_NoErrorOnCancel(err, strs) ==
  /\ IF isMountedRef /\ mounted
       THEN /\ permissionState' = ClassifyError(err)
            /\ error' = IF ClassifyError(err) = CANCELLED THEN error ELSE Some(err)
            /\ isActive' = FALSE
       ELSE UNCHANGED <<permissionState, error, isActive>>
  /\ streams' = strs
  /\ UNCHANGED <<stream, metadata, isMountedRef>>

\* CatchBlock without any check that the hook is still mounted: the error is
\* classified and written whatever isMountedRef says, also after the unmount.
CatchBlock_NoUnmountCheck(err, strs) ==
  /\ permissionState' = ClassifyError(err)
  /\ error' = Some(err)
  /\ isActive' = FALSE
  /\ streams' = strs
  /\ UNCHANGED <<stream, metadata, isMountedRef>>

\* The catch block of requestScreenShare, for the thrown value err; strs is
\* the list of granted streams at that point.
CatchBlock(err, strs) ==
  /\ IF isMountedRef /\ mounted
       THEN /\ permissionState' = ClassifyError(err)
            /\ error' = Some(err)
            /\ isActive' = FALSE
       ELSE UNCHANGED <<permissionState, error, isActive>>
  /\ streams' = strs
  /\ UNCHANGED <<stream, metadata, isMountedRef>>

\* GrantResolve without the check for a missing video track in
\* extractMetadata: reading the settings of undefined throws a TypeError.
GrantResolve_NoTrackCheck(videoTracks) ==
  /\ pending > 0
  /\ pending' = pending - 1
  /\ lastOp' = "grant"
  /\ UNCHANGED <<mounted, calls>>
  /\ LET n == Len(streams) + 1
         hasVideo == videoTracks # <<>>
         granted == Append(streams, NewStream(hasVideo))
     IN IF ~hasVideo
          THEN CatchBlock([name |-> "TypeError", message |-> <<>>], granted)
          ELSE LET listening == [granted EXCEPT ![n].onended = TRUE]
               IN IF isMountedRef
                    THEN /\ permissionState' = GRANTED
                         /\ stream' = n
                         /\ metadata' = Some(extractMetadata(videoTracks[1]))
                         /\ isActive' = TRUE
                         /\ isMountedRef' = FALSE
                         /\ streams' = cleanupStream([listening EXCEPT ![n].stored = TRUE], stream)
                         /\ UNCHANGED error
                    ELSE /\ streams' = cleanupStream(listening, n)
                         /\ UNCHANGED <<hookState, isMountedRef>>

\* GrantResolve without setMetadata(extractedMetadata)
GrantResolve_NoSetMetadata(videoTracks) ==
  /\ pending > 0
  /\ pending' = pending - 1
  /\ lastOp' = "grant"
  /\ UNCHANGED <<mounted, calls>>
  /\ LET n == Len(streams) + 1
         hasVideo == videoTracks # <<>>
         granted == Append(streams, NewStream(hasVideo))
     IN IF ~hasVideo
          THEN CatchBlock(NoVideoTrackError, granted)
          ELSE LET listening == [granted EXCEPT ![n].onended = TRUE]
               IN IF isMountedRef
                    THEN /\ permissionState' = GRANTED
                         /\ stream' = n
                         /\ isActive' = TRUE
                         /\ isMountedRef' = FALSE
                         /\ streams' = cleanupStream([listening EXCEPT ![n].stored = TRUE], stream)
                         /\ UNCHANGED <<error, metadata>>
                    ELSE /\ streams' = cleanupStream(listening, n)
                         /\ UNCHANGED <<hookState, isMountedRef>>

\* getDisplayMedia resolves with a stream: the rest of the try block, and the
\* commit that follows it.
GrantResolve(videoTracks) ==
  /\ pending > 0
  /\ pending' = pending - 1
  /\ lastOp' = "grant"
  /\ UNCHANGED <<mounted, calls>>
  /\ LET n == Len(streams) + 1
         hasVideo == videoTracks # <<>>
         granted == Append(streams, NewStream(hasVideo))
     IN IF ~hasVideo
          THEN \* extractMetadata throws; the stream is neither stored nor cleaned up
               CatchBlock(NoVideoTrackError, granted)
          ELSE LET listening == [granted EXCEPT ![n].onended = TRUE]
               IN IF isMountedRef
                    THEN /\ permissionState' = GRANTED
                         /\ stream' = n
                         /\ metadata' = Some(extractMetadata(videoTracks[1]))
                         /\ isActive' = TRUE
                         \* stream changed: the effect cleanup of the previous
                         \* render runs with the previous value of stream
                         /\ isMountedRef' = FALSE
                         /\ streams' = cleanupStream([listening EXCEPT ![n].stored = TRUE], stream)
                         /\ UNCHANGED error
                    ELSE /\ streams' = cleanupStream(listening, n)
                         /\ UNCHANGED <<hookState, isMountedRef>>

\* getDisplayMedia rejects with err
RejectResolve(err) ==
  /\ pending > 0
  /\ pending' = pending - 1
  /\ lastOp' = "reject"
  /\ UNCHANGED <<mounted, calls>>
  /\ CatchBlock(err, streams)

\* stopScreenShare, and the commit that follows it
StopScreenShare ==
  /\ (IF stream = 0 THEN TRUE ELSE streams[stream].released < MaxReleases)
  /\ lastOp' = "stop"
  /\ UNCHANGED <<mounted, pending, calls, error>>
  /\ IF stream = 0
       THEN UNCHANGED <<hookState, isMountedRef, streams>>
       ELSE IF isMountedRef /\ mounted
         THEN /\ isActive' = FALSE
              /\ permissionState' = IDLE
              /\ stream' = 0
              /\ metadata' = Null
              \* stream changed: the effect cleanup runs on the old stream
              /\ isMountedRef' = FALSE
              /\ streams' = cleanupStream(cleanupStream(streams, stream), stream)
         ELSE /\ streams' = cleanupStream(streams, stream)
              /\ UNCHANGED <<permissionState, stream, metadata, isActive, isMountedRef>>

\* handleStreamEnd without its isMountedRef check
handleStreamEnd_NoMountedCheck(strs) ==
  IF mounted
    THEN /\ isActive' = FALSE
         /\ permissionState' = IDLE
         /\ stream' = 0
         /\ metadata' = Null
         /\ IF stream # 0
              THEN /\ isMountedRef' = FALSE
                   /\ streams' = cleanupStream(strs, stream)
              ELSE /\ streams' = strs
                   /\ UNCHANGED isMountedRef
    ELSE /\ streams' = strs
         /\ UNCHANGED <<permissionState, stream, metadata, isActive, isMountedRef>>

\* handleStreamEnd, and the commit that follows it
handleStreamEnd(strs) ==
  IF isMountedRef /\ mounted
    THEN /\ isActive' = FALSE
         /\ permissionState' = IDLE
         /\ stream' = 0
         /\ metadata' = Null
         /\ IF stream # 0
              THEN /\ isMountedRef' = FALSE
                   /\ streams' = cleanupStream(strs, stream)
              ELSE /\ streams' = strs
                   /\ UNCHANGED isMountedRef
    ELSE /\ streams' = strs
         /\ UNCHANGED <<permissionState, stream, metadata, isActive, isMountedRef>>

\* The platform fires the ended event of the video track of stream s
TrackEnded(s) ==
  /\ s \in 1..Len(streams)
  /\ streams[s].onended
  /\ streams[s].endSignals < MaxEndSignals
  /\ lastOp' = "ended"
  /\ UNCHANGED <<mounted, pending, calls, error>>
  /\ handleStreamEnd([streams EXCEPT ![s].endSignals = @ + 1])

\* Unmount whose effect cleanup only clears the mounted flag
Unmount_NoCleanup ==
  /\ mounted
  /\ mounted' = FALSE
  /\ isMountedRef' = FALSE
  /\ lastOp' = "unmount"
  /\ UNCHANGED <<hookState, pending, calls, streams>>

\* The component is unmounted: the effect cleanup runs for the last time
Unmount ==
  /\ mounted
  /\ mounted' = FALSE
  /\ isMountedRef' = FALSE
  /\ streams' = cleanupStream(streams, stream)
  /\ lastOp' = "unmount"
  /\ UNCHANGED <<hookState, pending, calls>>

Next ==
  \/ RequestScreenShare
  \/ \E videoTracks \in VideoTracks : GrantResolve(videoTracks)
  \/ \E err \in PlatformErrors : RejectResolve(err)
  \/ StopScreenShare
  \/ \E s \in 1..MaxRequests : TrackEnded(s)
  \/ Unmount

Spec == Init /\ [][Next]_vars

\* The platform settles an outstanding getDisplayMedia promise
PlatformResponds ==
  \/ \E videoTracks \in VideoTracks : GrantResolve(videoTracks)
  \/ \E err \in PlatformErrors : RejectResolve(err)

\* The hook with a platform that answers every request: an outstanding
\* promise is eventually resolved or rejected, and its continuation runs.
FairSpec == Spec /\ WF_vars(PlatformResponds)

\* ------------------------------------------------------------ type check
TypeOK ==
  /\ permissionState \in PermissionState
  /\ stream \in 0..Len(streams)
  /\ isActive \in BOOLEAN
  /\ isMountedRef \in BOOLEAN
  /\ mounted \in BOOLEAN
  /\ pending \in 0..MaxRequests
  /\ calls \in 0..MaxRequests
  /\ Len(streams) + pending <= calls

\* ------------------------------------------------------------------------
\* ScreenTestPage (src/components/PermissionStateDisplay.tsx): the controls
\* the page renders from the state of the hook, and the hook driven only
\* through those controls.
\* ------------------------------------------------------------------------
\* showInitialButton with GRANTED among its phases
showInitialButton_WithGranted ==
  permissionState \in {IDLE, GRANTED, CANCELLED, DENIED, ERROR}

\* The block with the 'Start Screen Capture' button is rendered
showInitialButton ==
  permissionState \in {IDLE, CANCELLED, DENIED, ERROR}

\* The start button is disabled and shows its spinner
isRequesting == permissionState = REQUESTING

\* The stream preview with the 'Stop Screen Sharing' button is rendered
PreviewShown == isActive /\ stream # 0 /\ metadata # Null

\* The 'Screen Sharing Stopped' panel with the 'Retry Screen Test' button is
\* rendered
StoppedPanelShown ==
  ~isActive /\ permissionState = IDLE /\ stream = 0 /\ error # Null

\* A control that invokes requestScreenShare is rendered and enabled
StartControlEnabled ==
  (showInitialButton /\ ~isRequesting) \/ StoppedPanelShown

\* handleStartCapture / handleRetry: a click on an enabled start control
ClickStartControl ==
  /\ mounted
  /\ StartControlEnabled
  /\ RequestScreenShare

\* handleStopCapture: a click on 'Stop Screen Sharing'
handleStopCapture ==
  /\ mounted
  /\ PreviewShown
  /\ StopScreenShare

\* handleBackToHome: router.push('/') unmounts the page, and the hook with it
handleBackToHome == Unmount

PageNext ==
  \/ ClickStartControl
  \/ \E videoTracks \in VideoTracks : GrantResolve(videoTracks)
  \/ \E err \in PlatformErrors : RejectResolve(err)
  \/ handleStopCapture
  \/ \E s \in 1..MaxRequests : TrackEnded(s)
  \/ handleBackToHome

PageSpec == Init /\ [][PageNext]_vars

\* ------------------------------------------------------------------------
\* PermissionStateDisplay (src/components/PermissionStateDisplay.tsx): what
\* the component renders for a permission state and an error.
\* ------------------------------------------------------------------------
\* The fixed texts of stateConfigs, as sequences of characters like the error
\* messages they are compared with.
TextRequesting ==
  <<
    "P","l","e","a","s","e"," ","s","e","l","e","c","t"," ","a"," ",
    "s","c","r","e","e","n",","," ","w","i","n","d","o","w",","," ",
    "o","r"," ","t","a","b"," ","t","o"," ","s","h","a","r","e"," ",
    "i","n"," ","t","h","e"," ","b","r","o","w","s","e","r"," ","d",
    "i","a","l","o","g","." >>

TextCancelled ==
  <<
    "Y","o","u"," ","c","a","n","c","e","l","l","e","d"," ","t","h",
    "e"," ","s","c","r","e","e","n"," ","s","e","l","e","c","t","i",
    "o","n","."," ","C","l","i","c","k"," ","\"","R","e","t","r","y",
    "\""," ","t","o"," ","t","r","y"," ","a","g","a","i","n","." >>

TextDenied ==
  <<
    "S","c","r","e","e","n"," ","s","h","a","r","i","n","g"," ","p",
    "e","r","m","i","s","s","i","o","n"," ","w","a","s"," ","d","e",
    "n","i","e","d","."," ","P","l","e","a","s","e"," ","c","h","e",
    "c","k"," ","y","o","u","r"," ","b","r","o","w","s","e","r"," ",
    "s","e","t","t","i","n","g","s"," ","a","n","d"," ","t","r","y",
    " ","a","g","a","i","n","." >>

TextUnknownError ==
  <<
    "A","n"," ","u","n","k","n","o","w","n"," ","e","r","r","o","r",
    " ","o","c","c","u","r","r","e","d"," ","w","h","i","l","e"," ",
    "r","e","q","u","e","s","t","i","n","g"," ","s","c","r","e","e",
    "n"," ","s","h","a","r","e","." >>

\* stateConfigs[state].title
ConfigTitle(state) ==
  CASE state = REQUESTING -> "Requesting Permission"
    [] state = CANCELLED -> "Screen Sharing Cancelled"
    [] state = DENIED -> "Permission Denied"
    [] state = ERROR -> "Error Occurred"

\* stateConfigs[state].message for the error err
ConfigMessage(state, err) ==
  CASE state = REQUESTING -> TextRequesting
    [] state = CANCELLED -> TextCancelled
    [] state = DENIED -> TextDenied
    [] state = ERROR ->
         \* error?.message || 'An unknown error occurred ...'
         IF err # Null /\ err[1].message # <<>> THEN err[1].message
         ELSE TextUnknownError

\* The rendered output: Null when the component returns null, else the title,
\* the primary message and the optional box with the error name and details.
PermissionStateDisplay(state, err) ==
  IF state \in {IDLE, GRANTED} THEN Null
  ELSE Some([title |-> ConfigTitle(state),
             message |-> ConfigMessage(state, err),
             detail |-> IF err # Null /\ state = ERROR
                          THEN Some([name |-> err[1].name, message |-> err[1].message])
                          ELSE Null])

\* ------------------------------------------------------------------------
\* Claims
\* ------------------------------------------------------------------------
StreamIds == 1..Len(streams)

\* C1: in every reachable state metadata is non-null if and only if
\* permissionState = GRANTED.
C1_MetadataIffGranted ==
  (metadata # Null) <=> (permissionState = GRANTED)

\* C2: a requestScreenShare call made while permissionState is REQUESTING or
\* GRANTED issues no getDisplayMedia call and changes none of permissionState,
\* stream, metadata, error, isActive.
C2_StartIgnoredWhileBusy ==
  [][(lastOp' = "request" /\ permissionState \in {REQUESTING, GRANTED})
       => (calls' = calls /\ pending' = pending /\ UNCHANGED hookState)]_vars

\* C3: no granted stream has cleanupStream invoked on it more than once.
C3_NoDoubleRelease ==
  \A s \in StreamIds : streams[s].released <= 1

\* C4: once the hook is unmounted and no request is outstanding, cleanupStream
\* has been invoked on every granted stream.
C4_EveryStreamReleased ==
  (~mounted /\ pending = 0) => \A s \in StreamIds : streams[s].released >= 1

\* C5: stopScreenShare called with permissionState = GRANTED, a stored stream
\* and the hook mounted releases that stream, sets stream and metadata to
\* null, isActive to false and permissionState to IDLE.
C5_StopResetsSession ==
  [][(lastOp' = "stop" /\ permissionState = GRANTED /\ stream # 0 /\ mounted)
       => /\ streams'[stream].released > streams[stream].released
          /\ stream' = 0
          /\ metadata' = Null
          /\ isActive' = FALSE
          /\ permissionState' = IDLE]_vars

\* C6: when the ended event of the stored stream's track fires in GRANTED with
\* the hook mounted, the hook ends in IDLE with stream and metadata null,
\* isActive false, and that stream released exactly once.
C6_ExternalStopResetsSession ==
  [][(/\ lastOp' = "ended"
      /\ permissionState = GRANTED /\ stream # 0 /\ mounted
      /\ streams'[stream].endSignals > streams[stream].endSignals)
       => /\ permissionState' = IDLE
          /\ stream' = 0
          /\ metadata' = Null
          /\ isActive' = FALSE
          /\ streams'[stream].released = 1]_vars

\* A session that reached Active has ended: a stream that was stored has been
\* stopped by the hook or has signalled its end.
SessionEnded ==
  \E s \in StreamIds :
    streams[s].stored /\ (streams[s].released > 0 \/ streams[s].endSignals > 0)

\* C7: with the hook mounted, a requestScreenShare issued after a session has
\* ended and then granted (with a video track) ends in GRANTED with the new
\* stream and its metadata stored, the new stream not released.
C7_RetryAfterSessionGranted ==
  [][(/\ lastOp = "request" /\ pending = 1 /\ mounted /\ SessionEnded
      /\ lastOp' = "grant"
      /\ streams'[Len(streams')].hasVideo)
       => /\ permissionState' = GRANTED
          /\ stream' = Len(streams')
          /\ metadata' # Null
          /\ streams'[Len(streams')].released = 0]_vars

\* C8: the second of two consecutive stopScreenShare calls changes no state
\* variable and releases nothing.
C8_SecondStopIsNoOp ==
  [][(lastOp = "stop" /\ lastOp' = "stop") => UNCHANGED <<hookState, streams>>]_vars

C10_NoOrphanedStream ==
  [][lastOp' = "grant"
       => \/ stream' = Len(streams')
          \/ streams'[Len(streams')].released >= 1]_vars

\* The stream handed to the success continuation in this step
NewId == Len(streams')

\* C11: when requestScreenShare was called, the hook was unmounted before
\* the platform responded, and getDisplayMedia then grants a stream, the
\* stream is released and the continuation changes none of permissionState,
\* stream, metadata, error, isActive.
C11_GrantAfterUnmountReleased ==
  [][(lastOp = "unmount" /\ pending = 1 /\ lastOp' = "grant")
       => /\ streams'[NewId].released >= 1
          /\ UNCHANGED hookState]_vars

\* C12: whenever the only outstanding request is rejected, or its metadata
\* extraction throws, while the hook is mounted, permissionState becomes
\* CANCELLED, DENIED or ERROR; it does not stay REQUESTING.
C12_FailureAlwaysClassified ==
  [][(/\ mounted /\ pending = 1 /\ permissionState = REQUESTING
      /\ \/ lastOp' = "reject"
         \/ lastOp' = "grant" /\ ~streams'[NewId].hasVideo)
       => permissionState' \in {CANCELLED, DENIED, ERROR}]_vars

\* No session has reached Active so far: every earlier request has failed
NoSessionYet == \A s \in StreamIds : ~streams[s].stored

\* C13: with the hook mounted and every earlier request ended in CANCELLED,
\* DENIED or ERROR, a retry that the platform grants (with a video track) ends
\* in GRANTED with the new stream and its metadata stored and error null.
C13_GrantAfterFailedRetries ==
  [][(/\ lastOp = "request" /\ pending = 1 /\ mounted /\ NoSessionYet
      /\ lastOp' = "grant"
      /\ streams'[NewId].hasVideo)
       => /\ permissionState' = GRANTED
          /\ stream' = NewId
          /\ metadata' # Null
          /\ error' = Null]_vars

\* C13 witness: the third request was granted after two that failed, and
\* nothing of their errors is left.
C13_Witness ==
  /\ lastOp = "grant" /\ permissionState = GRANTED /\ error = Null
  /\ calls = 3 /\ pending = 0 /\ stream # 0
  /\ Cardinality({s \in StreamIds : streams[s].hasVideo}) = 1

\* The rejection err was handled by the catch block in this step: the mounted
\* check passed and the error was stored.
Rejected(name) ==
  /\ lastOp' = "reject"
  /\ isMountedRef
  /\ error' # Null
  /\ error'[1].name = name

CancelMessages == {MsgCancelled, MsgDismissed}

\* The error names the catch block tests for
RecognizedNames == {"NotAllowedError", "NotFoundError", "NotSupportedError", "AbortError"}

\* C15: a NotAllowedError whose message contains 'cancelled' or 'dismiss', and
\* any NotFoundError, yields CANCELLED; any other NotAllowedError yields DENIED;
\* NotSupportedError and every unrecognized error name yield ERROR.
C15_RejectionClassification ==
  [][(lastOp' = "reject" /\ isMountedRef /\ error' # Null)
       => LET e == error'[1]
          IN /\ (e.name = "NotAllowedError" /\ e.message \in CancelMessages)
                  => permissionState' = CANCELLED
             /\ e.name = "NotFoundError" => permissionState' = CANCELLED
             /\ (e.name = "NotAllowedError" /\ e.message \notin CancelMessages)
                  => permissionState' = DENIED
             /\ e.name = "NotSupportedError" => permissionState' = ERROR
             /\ e.name \notin RecognizedNames => permissionState' = ERROR]_vars

\* C15 witness: a NotAllowedError that mentions a dismissal was classified.
C15_Witness ==
  /\ lastOp = "reject" /\ permissionState = CANCELLED
  /\ error = Some([name |-> "NotAllowedError", message |-> MsgDismissed])

\* C16: when a stream without a video track is granted while the hook is
\* mounted and stream and metadata are null, the request ends in ERROR with
\* the 'No video track found' error, stream and metadata still null and
\* isActive false.
C16_NoVideoTrackIsFailure ==
  [][(/\ mounted /\ stream = 0 /\ metadata = Null
      /\ lastOp' = "grant"
      /\ ~streams'[NewId].hasVideo)
       => /\ permissionState' = ERROR
          /\ error' # Null
          /\ error'[1].name = "Error"
          /\ error'[1].message = MsgNoVideoTrack
          /\ stream' = 0
          /\ metadata' = Null
          /\ isActive' = FALSE]_vars

\* C16 witness: a grant without a video track has been turned into a failure.
C16_Witness ==
  /\ lastOp = "grant" /\ permissionState = ERROR /\ stream = 0
  /\ error # Null /\ error[1].message = MsgNoVideoTrack

\* The display type the claim expects for a reported surface
ExpectedDisplayType(surface) ==
  IF surface \in {Some("monitor"), Some("window"), Some("browser")}
    THEN surface[1]
    ELSE "unknown"

\* C17: for every granted stream with a video track whose result is stored,
\* metadata.displayType is the reported displaySurface when that is 'monitor',
\* 'window' or 'browser' and 'unknown' for any other or absent value; the
\* request ends in GRANTED whatever the surface field is.
C17_DisplayTypeMapped ==
  [][(lastOp' = "grant" /\ isMountedRef)
       => \A vt \in VideoTracks :
            (vt # <<>> /\ GrantResolve(vt))
              => /\ permissionState' = GRANTED
                 /\ metadata' # Null
                 /\ metadata'[1].displayType = ExpectedDisplayType(vt[1].displaySurface)]_vars

\* C17 witness: a browser tab was granted and stored.
C17_Witness ==
  /\ lastOp = "grant" /\ permissionState = GRANTED
  /\ metadata # Null /\ metadata[1].displayType = "browser"

\* The number the claim expects for an optional reported value
ReportedOrZero(v) == IF v = Null THEN 0 ELSE v[1]

\* C18: for every granted stream with a video track whose result is stored,
\* metadata.width, height and frameRate are the reported values, or 0 when
\* unreported, and the request ends in GRANTED whatever fields are missing.
C18_DimensionsOrZero ==
  [][(lastOp' = "grant" /\ isMountedRef)
       => \A vt \in VideoTracks :
            (vt # <<>> /\ GrantResolve(vt))
              => /\ permissionState' = GRANTED
                 /\ metadata' # Null
                 /\ metadata'[1].width = ReportedOrZero(vt[1].width)
                 /\ metadata'[1].height = ReportedOrZero(vt[1].height)
                 /\ metadata'[1].frameRate = ReportedOrZero(vt[1].frameRate)]_vars

\* C18 witness: a stream that reports no surface and no dimensions is active.
C18_Witness ==
  /\ lastOp = "grant" /\ permissionState = GRANTED
  /\ metadata = Some([displayType |-> "unknown", width |-> 0, height |-> 0, frameRate |-> 0])

\* C19: at most one granted stream is unreleased at any time.
C19_AtMostOneLiveStream ==
  Cardinality({s \in StreamIds : streams[s].released = 0}) <= 1

\* C20: a second (or later) ended signal of the same stream changes no state
\* variable and releases nothing.
C20_SecondEndSignalIsNoOp ==
  [][(/\ lastOp' = "ended"
      /\ \E s \in StreamIds :
           /\ streams[s].endSignals >= 1
           /\ streams'[s].endSignals > streams[s].endSignals)
       => /\ UNCHANGED <<hookState, isMountedRef>>
          /\ \A s \in StreamIds : streams'[s].released = streams[s].released]_vars

\* C20 witness: the ended signal of a stream has been delivered twice.
C20_Witness ==
  lastOp = "ended" /\ \E s \in StreamIds : streams[s].endSignals = 2

\* C21: in every reachable state stream and metadata are both null or both
\* non-null.
C21_StreamAndMetadataTogether ==
  (stream = 0) <=> (metadata = Null)

\* C21 witness: a granted stream is stored together with its metadata.
C21_Witness ==
  lastOp = "grant" /\ stream # 0 /\ metadata # Null

\* The edges of the permission state machine
Edges ==
  {<<IDLE, REQUESTING>>,
   <<REQUESTING, GRANTED>>, <<REQUESTING, CANCELLED>>,
   <<REQUESTING, DENIED>>, <<REQUESTING, ERROR>>,
   <<GRANTED, IDLE>>,
   <<CANCELLED, REQUESTING>>, <<DENIED, REQUESTING>>, <<ERROR, REQUESTING>>}

\* C22: every change of permissionState follows an edge of the state machine.
C22_OnlyStateMachineEdges ==
  [][permissionState' # permissionState
       => <<permissionState, permissionState'>> \in Edges]_vars

\* C23: after the hook has been unmounted, every call of requestScreenShare
\* or stopScreenShare issues no getDisplayMedia call, releases nothing and
\* changes no state.
C23_NoOpAfterUnmount ==
  [][(~mounted /\ lastOp' \in {"request", "stop"})
       => /\ calls' = calls
          /\ pending' = pending
          /\ streams' = streams
          /\ UNCHANGED hookState]_vars

\* C24: when the hook is unmounted while permissionState = GRANTED, the
\* stored stream is released by the unmount cleanup.
C24_UnmountReleasesStoredStream ==
  [][(lastOp' = "unmount" /\ permissionState = GRANTED)
       => /\ stream # 0
          /\ streams'[stream].released = streams[stream].released + 1]_vars

\* C24 witness: the hook was unmounted in GRANTED and its stream, untouched
\* until then, is released.
C24_Witness ==
  /\ lastOp = "unmount" /\ permissionState = GRANTED /\ stream # 0
  /\ streams[stream].released = 1

\* C25: stopScreenShare called in any phase other than GRANTED releases no
\* stream and leaves permissionState, stream, metadata, error and isActive
\* unchanged, also while a request is in flight.
C25_StopOutsideGrantedIsNoOp ==
  [][(lastOp' = "stop" /\ permissionState # GRANTED)
       => /\ streams' = streams
          /\ UNCHANGED hookState]_vars

\* The rest states that await a retry
RestStates == {CANCELLED, DENIED, ERROR}

\* C26: nothing is retried automatically: every getDisplayMedia call is made
\* by one requestScreenShare invocation, and from CANCELLED, DENIED or ERROR
\* permissionState changes only in a requestScreenShare call.
C26_NoAutomaticRetry ==
  [][/\ calls' # calls => (lastOp' = "request" /\ calls' = calls + 1)
     /\ (permissionState \in RestStates /\ permissionState' # permissionState)
          => lastOp' = "request"]_vars

\* C27: on ScreenTestPage, when an active session is stopped, by the Stop
\* button or by the ended event of the stored stream, the 'Screen Sharing
\* Stopped' panel is rendered in the state reached.
C27_StoppedPanelAfterSession ==
  [][(/\ mounted /\ PreviewShown /\ permissionState = GRANTED
      /\ \/ lastOp' = "stop"
         \/ /\ lastOp' = "ended"
            /\ streams'[stream].endSignals > streams[stream].endSignals)
       => StoppedPanelShown']_vars

\* C28: on ScreenTestPage no control that invokes requestScreenShare is
\* rendered enabled while permissionState is REQUESTING or GRANTED, and at
\* most one getDisplayMedia request is outstanding at any time.
C28_OneRequestAtATime ==
  /\ permissionState \in {REQUESTING, GRANTED} => ~StartControlEnabled
  /\ pending <= 1

\* C28 witness: a second request, made after the first one failed, is
\* outstanding and the start controls are disabled.
C28_Witness ==
  /\ lastOp = "request" /\ permissionState = REQUESTING
  /\ calls = 2 /\ pending = 1 /\ ~StartControlEnabled

\* C29: the hook starts with permissionState = IDLE, stream = null,
\* metadata = null, error = null and isActive = false.
C29_InitialState ==
  lastOp = "init"
    => /\ permissionState = IDLE
       /\ stream = 0
       /\ metadata = Null
       /\ error = Null
       /\ isActive = FALSE

\* C29 witness: the hook has been constructed and no handler has run.
C29_Witness ==
  lastOp = "init" /\ mounted /\ calls = 0 /\ streams = <<>>

\* The plain-language explanation the claim expects as the primary message
PlainMessage(state) ==
  CASE state = CANCELLED -> TextCancelled
    [] state = DENIED -> TextDenied
    [] state = ERROR -> TextUnknownError

\* C30: PermissionStateDisplay never shows the raw error text as the primary
\* message: under CANCELLED, DENIED and ERROR the primary message is the fixed
\* explanation of that state, and the raw error name and message appear only
\* as the supplementary detail, which is shown under both ERROR and DENIED.
C30_RawErrorOnlyAsDetail ==
  LET display == PermissionStateDisplay(permissionState, error)
  IN /\ permissionState \in RestStates
          => /\ display # Null
             /\ display[1].message = PlainMessage(permissionState)
     /\ (permissionState \in {ERROR, DENIED} /\ error # Null)
          => /\ display # Null
             /\ display[1].detail = Some([name |-> error[1].name, message |-> error[1].message])
     /\ (display # Null /\ display[1].detail # Null)
          => permissionState \in {ERROR, DENIED}

\* C31: isMountedRef.current is true in every state in which the hook is
\* still mounted; it becomes false only when the hook is unmounted.
C31_MountedFlagTrueWhileMounted ==
  mounted => isMountedRef

C33_StoredStreamNotReleased ==
  (mounted /\ stream # 0) => streams[stream].released = 0

\* C34: in every reachable state isActive is true if and only if
\* permissionState = GRANTED, and if and only if stream is non-null.
C34_ActiveIffGrantedIffStream ==
  /\ isActive <=> (permissionState = GRANTED)
  /\ isActive <=> (stream # 0)

\* C35: while the hook stays mounted and the platform answers every request,
\* permissionState = REQUESTING always leads to GRANTED, CANCELLED, DENIED or
\* ERROR, for the first request and for every later one.
C35_RequestingEventuallySettles ==
  (mounted /\ permissionState = REQUESTING)
    ~> (~mounted \/ permissionState \in {GRANTED, CANCELLED, DENIED, ERROR})

\* C36: a track-ended signal of a stream that is not the stored stream leaves
\* permissionState, stream, metadata, error and isActive of the current
\* session unchanged and releases nothing.
C36_StaleEndSignalIgnored ==
  [][(/\ lastOp' = "ended"
      /\ stream # 0
      /\ streams'[stream].endSignals = streams[stream].endSignals)
       => /\ UNCHANGED hookState
          /\ streams'[stream].released = streams[stream].released]_vars

\* C36 witness: a session is active and the last signal handled came from a
\* stream that was granted later and discarded, not from the stored one.
C36_Witness ==
  /\ lastOp = "ended" /\ mounted /\ permissionState = GRANTED /\ stream # 0
  /\ streams[stream].endSignals = 0
  /\ \E s \in StreamIds : s # stream /\ streams[s].endSignals >= 1
====
